---- MODULE Spec2Model ----
(***************************************************************************)
(* Model of pythermophy/cubic_eos.py: the three cubic equation-of-state    *)
(* families RedlichKwong, SoaveRedlichKwong and PengRobinson.              *)
(*                                                                         *)
(* State: R, the gas constant the classes hold (self.R); fluid, the        *)
(* argument of the constructor; cls, the class instantiated; pc, "new"     *)
(* before construction, then "ready" or "failed"; self, the attributes of  *)
(* the instance; super_args, the arguments given to the parent             *)
(* constructor; err, the exception of a failed construction; last, the     *)
(* last method call with its argument and result; failed, whether a call   *)
(* has raised.                                                             *)
(*                                                                         *)
(* Python floats are modelled as exact rationals <<n, d>> in lowest terms  *)
(* (d > 0).  x**0.5 is the exact rational square root; the temperatures    *)
(* the model evaluates at are therefore drawn from the set where T/T_crit  *)
(* is the square of a rational.                                            *)
(*                                                                         *)
(* Spec     : construction of an EOS object from a fluid, with the         *)
(*            coefficients of the source.                                  *)
(* SpecEval : calls of get_a / get_diff_a_T / get_double_diff_a_T on a     *)
(*            constructed object whose a0 and kappa are small rationals,   *)
(*            which keeps the exact results within the integer range.      *)
(***************************************************************************)
EXTENDS Integers, Sequences, FiniteSets, TLC

VARIABLES R, fluid, cls, pc, self, super_args, err, last, failed

vars == <<R, fluid, cls, pc, self, super_args, err, last, failed>>

(***************************** bounds **************************************)
\* p_crit and T_crit of a fluid range over -1 .. MaxCrit
MaxCrit == 2
\* the acentric factor ranges over n/2, n \in -MaxAcentric2 .. MaxAcentric2
MaxAcentric2 == 2
\* the gas constant ranges over 1 .. MaxR
MaxR == 2
\* a0 of an evaluated object ranges over 1 .. MaxA0
MaxA0 == 2
\* kappa of an evaluated object ranges over n/2, n \in -MaxKappa2 .. MaxKappa2
MaxKappa2 == 4
\* T_crit of an evaluated object ranges over 1 .. MaxTcEval
MaxTcEval == 2
\* sqrt(T/T_crit) ranges over n/SqrtDen, n \in 1 .. MaxSqrtNum
MaxSqrtNum == 5
SqrtDen == 3
\* the finite-difference step is halved up to MaxHalvings times
MaxHalvings == 4

(************************ float arithmetic *********************************)
Abs(n) == IF n < 0 THEN -n ELSE n

RECURSIVE GCD(_, _)
GCD(a, b) == IF b = 0 THEN a ELSE GCD(b, a % b)

\* the rational n/d (d # 0) in lowest terms with a positive denominator
Frac(n, d) ==
    LET g == GCD(Abs(n), Abs(d))
        s == IF d < 0 THEN -1 ELSE 1
    IN  <<(s * n) \div g, (s * d) \div g>>

I(n) == <<n, 1>>
Zero == I(0)
One == I(1)
\* a decimal literal with five places, 0.42748 = Dec5(42748)
Dec5(n) == Frac(n, 100000)

RNeg(x) == <<-x[1], x[2]>>

RAdd(x, y) ==
    LET g == GCD(x[2], y[2])
        l == (x[2] \div g) * y[2]
    IN  Frac(x[1] * (l \div x[2]) + y[1] * (l \div y[2]), l)

RSub(x, y) == RAdd(x, RNeg(y))

RMul(x, y) ==
    LET a == Frac(x[1], y[2])
        b == Frac(y[1], x[2])
    IN  <<a[1] * b[1], a[2] * b[2]>>

\* x / y for y # 0 (the callers raise ZeroDivisionError for y = 0)
RDiv(x, y) == RMul(x, Frac(y[2], y[1]))

RSq(x) == RMul(x, x)

RIsZero(x) == x[1] = 0
RPos(x) == x[1] > 0
RNegative(x) == x[1] < 0
RLt(x, y) == RNegative(RSub(x, y))
RLe(x, y) == ~RPos(RSub(x, y))

\* the root r of a perfect square n = r*r, by bisection of lo..hi
RECURSIVE Bisect(_, _, _)
Bisect(n, lo, hi) ==
    IF lo >= hi THEN lo
    ELSE LET mid == (lo + hi) \div 2
         IN  IF mid * mid >= n THEN Bisect(n, lo, mid) ELSE Bisect(n, mid + 1, hi)

ISqrt(n) == Bisect(n, 0, IF n < 46340 THEN n ELSE 46340)

\* x**0.5 for x >= 0 the square of a rational
RSqrt(x) == <<ISqrt(x[1]), ISqrt(x[2])>>

(*************************** results ***************************************)
NoObject == [family |-> "none"]
NoFluid == [p_crit |-> Zero, T_crit |-> Zero, acentric |-> Zero, R |-> Zero]
NoArgs == <<>>
NoCall == [method |-> "none"]

Ret(v) == [kind |-> "value", val |-> v]
Raise(e) == [kind |-> e, val |-> Zero]
\* a negative float raised to 0.5
NonReal == [kind |-> "nonreal", val |-> Zero]

(************************** construction ***********************************)
CritValues == {I(n) : n \in -1..MaxCrit}
AcentricValues == {Frac(n, 2) : n \in -MaxAcentric2..MaxAcentric2}
RValues == {I(n) : n \in 1..MaxR}

Fluids == [p_crit : CritValues, T_crit : CritValues,
           acentric : AcentricValues, R : RValues]

\* CubicEOS.__init__(b1, b2, b3, b4, fluid), called last by each constructor
CubicEOS_init(obj, b1, b2, b3, b4, f) ==
    /\ super_args' = <<b1, b2, b3, b4>>
    /\ IF RPos(f.p_crit) /\ RPos(f.T_crit)
       THEN pc' = "ready" /\ self' = obj /\ err' = "none"
       ELSE pc' = "failed" /\ self' = NoObject /\ err' = "ConfigError"

\* a division by p_crit = 0 in a constructor: ZeroDivisionError on Python
\* numbers; on numpy scalars the quotient is inf or nan and the constructor
\* goes on to the parent constructor
DivideByZeroCrit(f) ==
    \/ /\ pc' = "failed" /\ self' = NoObject /\ err' = "ZeroDivisionError"
       /\ super_args' = NoArgs
    \/ /\ pc' = "failed" /\ self' = NoObject /\ err' = "ConfigError"
       /\ super_args' = NoArgs    \* non-finite arguments are not recorded

RK_a0(f) == RDiv(RMul(RMul(Dec5(42748), RSq(R)), RSq(f.T_crit)), f.p_crit)
RK_b1(f) == RDiv(RMul(RMul(Dec5(8664), R), f.T_crit), f.p_crit)

RedlichKwong_init ==
    /\ pc = "new"
    /\ cls' = "RK"
    /\ IF RIsZero(fluid.p_crit)
       THEN DivideByZeroCrit(fluid)
       ELSE LET b1 == RK_b1(fluid)
                obj == [family |-> "RK", p_crit |-> fluid.p_crit,
                        T_crit |-> fluid.T_crit, a0 |-> RK_a0(fluid)]
            IN  CubicEOS_init(obj, b1, Zero, b1, Zero, fluid)
    /\ UNCHANGED <<R, fluid, last, failed>>

\* a0 from the gas constant the fluid holds
SRK_a0_fluidR(f) == RDiv(RMul(RMul(Dec5(42748), RSq(f.R)), RSq(f.T_crit)), f.p_crit)
SRK_a0(f) == RDiv(RMul(RMul(Dec5(42748), RSq(R)), RSq(f.T_crit)), f.p_crit)
SRK_b1(f) == RDiv(RMul(RMul(Dec5(8664), R), f.T_crit), f.p_crit)
\* SRK with the kappa polynomial of PR
SRK_kappa_pr(f) ==
    RSub(RAdd(Dec5(37464), RMul(Dec5(154226), f.acentric)),
         RMul(Dec5(26992), RSq(f.acentric)))
SRK_kappa(f) ==
    RSub(RAdd(Dec5(48508), RMul(Dec5(155171), f.acentric)),
         RMul(Dec5(15613), RSq(f.acentric)))

SoaveRedlichKwong_init ==
    /\ pc = "new"
    /\ cls' = "SRK"
    /\ IF RIsZero(fluid.p_crit)
       THEN DivideByZeroCrit(fluid)
       ELSE LET b1 == SRK_b1(fluid)
                obj == [family |-> "SRK", acentric |-> fluid.acentric,
                        p_crit |-> fluid.p_crit, T_crit |-> fluid.T_crit,
                        a0 |-> SRK_a0(fluid), kappa |-> SRK_kappa(fluid)]
            IN  CubicEOS_init(obj, b1, Zero, b1, Zero, fluid)
    /\ UNCHANGED <<R, fluid, last, failed>>

PR_a0(f) == RDiv(RMul(RMul(Dec5(45724), RSq(R)), RSq(f.T_crit)), f.p_crit)
\* PR with the covolume coefficient of RK and SRK
PR_b1_rk(f) == RDiv(RMul(RMul(Dec5(8664), R), f.T_crit), f.p_crit)
PR_b1(f) == RDiv(RMul(RMul(Dec5(7780), R), f.T_crit), f.p_crit)
PR_kappa(f) ==
    RSub(RAdd(Dec5(37464), RMul(Dec5(154226), f.acentric)),
         RMul(Dec5(26992), RSq(f.acentric)))

PengRobinson_init ==
    /\ pc = "new"
    /\ cls' = "PR"
    /\ IF RIsZero(fluid.p_crit)
       THEN DivideByZeroCrit(fluid)
       ELSE LET b1 == PR_b1(fluid)
                obj == [family |-> "PR", acentric |-> fluid.acentric,
                        p_crit |-> fluid.p_crit, T_crit |-> fluid.T_crit,
                        a0 |-> PR_a0(fluid), kappa |-> PR_kappa(fluid)]
            IN  CubicEOS_init(obj, b1, Zero, RMul(I(2), b1), RNeg(RSq(b1)), fluid)
    /\ UNCHANGED <<R, fluid, last, failed>>

(*************************** evaluation ************************************)
RedlichKwong_get_a(o, T) ==
    IF RIsZero(o.T_crit) THEN Raise("ZeroDivisionError")
    ELSE LET Tr == RDiv(T, o.T_crit)
         IN  IF RNegative(Tr) THEN NonReal
             ELSE IF RIsZero(RSqrt(Tr)) THEN Raise("ZeroDivisionError")
             ELSE Ret(RDiv(o.a0, RSqrt(Tr)))

\* the derivative without its factor 0.5
RedlichKwong_get_diff_a_T_nohalf(o, T) ==
    IF RIsZero(o.T_crit) THEN Raise("ZeroDivisionError")
    ELSE LET Tr == RDiv(T, o.T_crit)
         IN  IF RIsZero(T) THEN Raise("ZeroDivisionError")
             ELSE IF RNegative(Tr) THEN NonReal
             ELSE Ret(RDiv(RDiv(RMul(I(-1), o.a0), T), RSqrt(Tr)))

RedlichKwong_get_diff_a_T(o, T) ==
    IF RIsZero(o.T_crit) THEN Raise("ZeroDivisionError")
    ELSE LET Tr == RDiv(T, o.T_crit)
         IN  IF RIsZero(T) THEN Raise("ZeroDivisionError")
             ELSE IF RNegative(Tr) THEN NonReal
             ELSE Ret(RDiv(RDiv(RMul(Dec5(-50000), o.a0), T), RSqrt(Tr)))

RedlichKwong_get_double_diff_a_T(o, T) ==
    IF RIsZero(o.T_crit) THEN Raise("ZeroDivisionError")
    ELSE LET Tr == RDiv(T, o.T_crit)
         IN  IF RIsZero(T) THEN Raise("ZeroDivisionError")
             ELSE IF RNegative(Tr) THEN NonReal
             ELSE Ret(RDiv(RDiv(RMul(Dec5(75000), o.a0), RSq(T)), RSqrt(Tr)))

\* alpha without its square
SoaveRedlichKwong_get_a_unsquared(o, T) ==
    IF RIsZero(o.T_crit) THEN Raise("ZeroDivisionError")
    ELSE LET Tr == RDiv(T, o.T_crit)
         IN  IF RNegative(Tr) THEN NonReal
             ELSE LET alpha == RAdd(One, RMul(o.kappa, RSub(One, RSqrt(Tr))))
                  IN  Ret(RMul(alpha, o.a0))

SoaveRedlichKwong_get_a(o, T) ==
    IF RIsZero(o.T_crit) THEN Raise("ZeroDivisionError")
    ELSE LET Tr == RDiv(T, o.T_crit)
         IN  IF RNegative(Tr) THEN NonReal
             ELSE LET alpha == RSq(RAdd(One, RMul(o.kappa, RSub(One, RSqrt(Tr)))))
                  IN  Ret(RMul(alpha, o.a0))

SoaveRedlichKwong_get_diff_a_T(o, T) ==
    IF RIsZero(o.T_crit) THEN Raise("ZeroDivisionError")
    ELSE LET Tr == RDiv(T, o.T_crit)
         IN  IF RNegative(Tr) THEN NonReal
             ELSE IF RIsZero(T) THEN Raise("ZeroDivisionError")
             ELSE LET alpha0 == RAdd(One, RMul(o.kappa, RSub(One, RSqrt(Tr))))
                  IN  Ret(RMul(RMul(RNeg(RDiv(RMul(o.a0, o.kappa), T)),
                                    RSqrt(Tr)), alpha0))

\* the second derivative with its two terms subtracted
SoaveRedlichKwong_get_double_diff_a_T_minus(o, T) ==
    IF RIsZero(o.T_crit) THEN Raise("ZeroDivisionError")
    ELSE LET Tr == RDiv(T, o.T_crit)
         IN  IF RNegative(Tr) THEN NonReal
             ELSE IF RIsZero(T) THEN Raise("ZeroDivisionError")
             ELSE LET alpha0 == RAdd(One, RMul(o.kappa, RSub(One, RSqrt(Tr))))
                      half == Dec5(50000)
                  IN  Ret(RSub(
                        RMul(RDiv(RMul(RMul(half, o.a0), RSq(o.kappa)), RSq(T)), Tr),
                        RMul(RMul(RDiv(RMul(RMul(half, o.a0), o.kappa), RSq(T)),
                                  RSqrt(Tr)), alpha0)))

SoaveRedlichKwong_get_double_diff_a_T(o, T) ==
    IF RIsZero(o.T_crit) THEN Raise("ZeroDivisionError")
    ELSE LET Tr == RDiv(T, o.T_crit)
         IN  IF RNegative(Tr) THEN NonReal
             ELSE IF RIsZero(T) THEN Raise("ZeroDivisionError")
             ELSE LET alpha0 == RAdd(One, RMul(o.kappa, RSub(One, RSqrt(Tr))))
                      half == Dec5(50000)
                  IN  Ret(RAdd(
                        RMul(RDiv(RMul(RMul(half, o.a0), RSq(o.kappa)), RSq(T)), Tr),
                        RMul(RMul(RDiv(RMul(RMul(half, o.a0), o.kappa), RSq(T)),
                                  RSqrt(Tr)), alpha0)))

\* alpha0 with 1 + Tr**0.5 for 1 - Tr**0.5
PengRobinson_get_a_plus(o, T) ==
    IF RIsZero(o.T_crit) THEN Raise("ZeroDivisionError")
    ELSE LET Tr == RDiv(T, o.T_crit)
         IN  IF RNegative(Tr) THEN NonReal
             ELSE LET alpha == RSq(RAdd(One, RMul(o.kappa, RAdd(One, RSqrt(Tr)))))
                  IN  Ret(RMul(alpha, o.a0))

PengRobinson_get_a(o, T) ==
    IF RIsZero(o.T_crit) THEN Raise("ZeroDivisionError")
    ELSE LET Tr == RDiv(T, o.T_crit)
         IN  IF RNegative(Tr) THEN NonReal
             ELSE LET alpha == RSq(RAdd(One, RMul(o.kappa, RSub(One, RSqrt(Tr)))))
                  IN  Ret(RMul(alpha, o.a0))

PengRobinson_get_diff_a_T(o, T) ==
    IF RIsZero(o.T_crit) THEN Raise("ZeroDivisionError")
    ELSE LET Tr == RDiv(T, o.T_crit)
         IN  IF RNegative(Tr) THEN NonReal
             ELSE IF RIsZero(T) THEN Raise("ZeroDivisionError")
             ELSE LET alpha0 == RAdd(One, RMul(o.kappa, RSub(One, RSqrt(Tr))))
                  IN  Ret(RMul(RMul(RNeg(RDiv(RMul(o.a0, o.kappa), T)),
                                    RSqrt(Tr)), alpha0))

\* the second derivative with T for T**2 in its first term
PengRobinson_get_double_diff_a_T_T1(o, T) ==
    IF RIsZero(o.T_crit) THEN Raise("ZeroDivisionError")
    ELSE LET Tr == RDiv(T, o.T_crit)
         IN  IF RNegative(Tr) THEN NonReal
             ELSE IF RIsZero(T) THEN Raise("ZeroDivisionError")
             ELSE LET alpha0 == RAdd(One, RMul(o.kappa, RSub(One, RSqrt(Tr))))
                      half == Dec5(50000)
                  IN  Ret(RAdd(
                        RMul(RDiv(RMul(RMul(half, o.a0), RSq(o.kappa)), T), Tr),
                        RMul(RMul(RDiv(RMul(RMul(half, o.a0), o.kappa), RSq(T)),
                                  RSqrt(Tr)), alpha0)))

PengRobinson_get_double_diff_a_T(o, T) ==
    IF RIsZero(o.T_crit) THEN Raise("ZeroDivisionError")
    ELSE LET Tr == RDiv(T, o.T_crit)
         IN  IF RNegative(Tr) THEN NonReal
             ELSE IF RIsZero(T) THEN Raise("ZeroDivisionError")
             ELSE LET alpha0 == RAdd(One, RMul(o.kappa, RSub(One, RSqrt(Tr))))
                      half == Dec5(50000)
                  IN  Ret(RAdd(
                        RMul(RDiv(RMul(RMul(half, o.a0), RSq(o.kappa)), RSq(T)), Tr),
                        RMul(RMul(RDiv(RMul(RMul(half, o.a0), o.kappa), RSq(T)),
                                  RSqrt(Tr)), alpha0)))

\* what the caller sees of a result: a negative float raised to 0.5 raises
\* ValueError on Python 2 and yields a complex number on Python 3
Errors == {"ZeroDivisionError", "ValueError"}

Outcomes(r) ==
    IF r.kind = "nonreal" THEN {"ValueError", "complex"} ELSE {r.kind}

Returned(method, T, r) ==
    /\ \E k \in Outcomes(r) :
          /\ last' = [method |-> method, T |-> T, kind |-> k, val |-> r.val]
          /\ failed' = (failed \/ k \in Errors)
    /\ UNCHANGED <<R, fluid, cls, pc, self, super_args, err>>

\* method resolution on the object's class
Call_get_a(o, T) ==
    CASE o.family = "RK" -> RedlichKwong_get_a(o, T)
      [] o.family = "SRK" -> SoaveRedlichKwong_get_a(o, T)
      [] o.family = "PR" -> PengRobinson_get_a(o, T)

Call_get_diff_a_T(o, T) ==
    CASE o.family = "RK" -> RedlichKwong_get_diff_a_T(o, T)
      [] o.family = "SRK" -> SoaveRedlichKwong_get_diff_a_T(o, T)
      [] o.family = "PR" -> PengRobinson_get_diff_a_T(o, T)

Call_get_double_diff_a_T(o, T) ==
    CASE o.family = "RK" -> RedlichKwong_get_double_diff_a_T(o, T)
      [] o.family = "SRK" -> SoaveRedlichKwong_get_double_diff_a_T(o, T)
      [] o.family = "PR" -> PengRobinson_get_double_diff_a_T(o, T)

\* a call that assigns its argument to an attribute of the object
get_a_storing(T) ==
    /\ pc = "ready"
    /\ \E k \in Outcomes(Call_get_a(self, T)) :
          /\ last' = [method |-> "get_a", T |-> T, kind |-> k,
                      val |-> Call_get_a(self, T).val]
          /\ failed' = (failed \/ k \in Errors)
    /\ self' = [self EXCEPT !.T_crit = T]
    /\ UNCHANGED <<R, fluid, cls, pc, super_args, err>>

get_a(T) ==
    /\ pc = "ready"
    /\ Returned("get_a", T, Call_get_a(self, T))

get_diff_a_T(T) ==
    /\ pc = "ready"
    /\ Returned("get_diff_a_T", T, Call_get_diff_a_T(self, T))

get_double_diff_a_T(T) ==
    /\ pc = "ready"
    /\ Returned("get_double_diff_a_T", T, Call_get_double_diff_a_T(self, T))

\* the objects calls are made on.  a0, kappa and T_crit, the attributes the
\* methods read, range over small rationals: every a0 > 0 is the a0 of some
\* p_crit and every kappa of the sets below that of some acentric factor.
\* p_crit is the one that gives a0 with R = 1; the acentric factor that
\* gives such a kappa is irrational, and the attribute carries 0.
A0Values == {I(n) : n \in 1..MaxA0}
KappaValues == {Frac(n, 2) : n \in -MaxKappa2..MaxKappa2}
TcValues == {I(n) : n \in 1..MaxTcEval}

PCritOf(C, tc, a) == RDiv(RMul(C, RSq(tc)), a)

Objects ==
    {[family |-> "RK", p_crit |-> PCritOf(Dec5(42748), tc, a), T_crit |-> tc,
      a0 |-> a] : tc \in TcValues, a \in A0Values}
    \cup {[family |-> "SRK", acentric |-> Zero,
           p_crit |-> PCritOf(Dec5(42748), tc, a), T_crit |-> tc,
           a0 |-> a, kappa |-> k] :
              tc \in TcValues, a \in A0Values, k \in KappaValues}
    \cup {[family |-> "PR", acentric |-> Zero,
           p_crit |-> PCritOf(Dec5(45724), tc, a), T_crit |-> tc,
           a0 |-> a, kappa |-> k] :
              tc \in TcValues, a \in A0Values, k \in KappaValues}

\* the temperatures of the calls: those with sqrt(T/T_crit) rational, 0 and -1
SqrtGrid == {Frac(n, SqrtDen) : n \in 1..MaxSqrtNum}
Temperatures(o) == {RMul(o.T_crit, RSq(s)) : s \in SqrtGrid} \cup {Zero, I(-1)}

InitEval ==
    /\ R \in {One}
    /\ fluid = NoFluid
    /\ pc = "ready"
    /\ self \in Objects
    /\ cls = self.family
    /\ super_args = NoArgs
    /\ err = "none"
    /\ last = NoCall
    /\ failed = FALSE

NextEval ==
    \/ \E T \in Temperatures(self) : get_a(T)
    \/ \E T \in Temperatures(self) : get_diff_a_T(T)
    \/ \E T \in Temperatures(self) : get_double_diff_a_T(T)

SpecEval == InitEval /\ [][NextEval]_vars

Init ==
    /\ R \in RValues
    /\ fluid \in Fluids
    /\ cls = "none"
    /\ pc = "new"
    /\ self = NoObject
    /\ super_args = NoArgs
    /\ err = "none"
    /\ last = NoCall
    /\ failed = FALSE

Next ==
    \/ RedlichKwong_init
    \/ SoaveRedlichKwong_init
    \/ PengRobinson_init

Spec == Init /\ [][Next]_vars

(***************************************************************************)
(*                     Properties of construction (Spec)                   *)
(***************************************************************************)
BadCrit(f) == ~RPos(f.p_crit) \/ ~RPos(f.T_crit)

\* C2: constructing an EOS of any family from a fluid with p_crit <= 0 or
\* T_crit <= 0 fails with ConfigError, and no object is produced.
C2_BadCritRaisesConfigError ==
    (pc # "new" /\ BadCrit(fluid)) =>
        (pc = "failed" /\ err = "ConfigError" /\ self = NoObject)

\* C3: the arguments handed to the parent constructor are (b, 0, b, 0) for
\* RK and SRK with b * p_crit = 0.08664 * R * T_crit, and (b, 0, 2b, -b^2)
\* for PR with b * p_crit = 0.07780 * R * T_crit, for every fluid.
C3_ParentArguments ==
    super_args # NoArgs =>
        LET b == super_args[1]
            lhs == RMul(RMul(b, fluid.p_crit), I(100000))
            rt == RMul(R, fluid.T_crit)
        IN  /\ super_args[2] = Zero
            /\ cls \in {"RK", "SRK"} =>
                  /\ lhs = RMul(I(8664), rt)
                  /\ super_args[3] = b
                  /\ super_args[4] = Zero
            /\ cls = "PR" =>
                  /\ lhs = RMul(I(7780), rt)
                  /\ super_args[3] = RAdd(b, b)
                  /\ RAdd(super_args[4], RMul(b, b)) = Zero

C3_Witness ==
    /\ pc = "ready" /\ cls = "PR" /\ fluid.p_crit # fluid.T_crit
    /\ RNegative(super_args[4])

\* C4: a0 * p_crit = C * R^2 * T_crit^2 with C = 0.42748 for RK and SRK and
\* 0.45724 for PR; kappa = 0.48508 + w*(1.55171 - 0.15613*w) for SRK and
\* 0.37464 + w*(1.54226 - 0.26992*w) for PR; an RK object has neither kappa
\* nor acentric.
C4_AttractionParameters ==
    pc = "ready" =>
        LET w == fluid.acentric
            lhs == RMul(RMul(self.a0, fluid.p_crit), I(100000))
            rt2 == RMul(RSq(R), RSq(fluid.T_crit))
        IN  /\ self.family = cls
            /\ self.T_crit = fluid.T_crit /\ self.p_crit = fluid.p_crit
            /\ cls = "RK" =>
                  /\ lhs = RMul(I(42748), rt2)
                  /\ DOMAIN self = {"family", "p_crit", "T_crit", "a0"}
            /\ cls = "SRK" =>
                  /\ lhs = RMul(I(42748), rt2)
                  /\ self.acentric = w
                  /\ RMul(self.kappa, I(100000)) =
                       RAdd(I(48508), RMul(w, RSub(I(155171), RMul(I(15613), w))))
            /\ cls = "PR" =>
                  /\ lhs = RMul(I(45724), rt2)
                  /\ self.acentric = w
                  /\ RMul(self.kappa, I(100000)) =
                       RAdd(I(37464), RMul(w, RSub(I(154226), RMul(I(26992), w))))

C4_Witness ==
    /\ pc = "ready" /\ cls = "SRK" /\ ~RIsZero(fluid.acentric)
    /\ fluid.T_crit # One /\ fluid.p_crit # One

Returns(m) == pc = "ready" /\ last.method = m /\ last.kind = "value"

\* 1 + kappa*(1 - sqrt(T/T_crit)) of the last call, for SRK and PR
LastSqrtTr == RSqrt(RDiv(last.T, self.T_crit))
LastAlpha0 == RAdd(One, RMul(self.kappa, RSub(One, LastSqrtTr)))

\* C1 (as stated): get_a(T) is strictly positive for every T > 0.
C1_APositive ==
    (pc = "ready" /\ last.method = "get_a" /\ RPos(last.T)) =>
        (last.kind = "value" /\ RPos(last.val))

\* C1 (amended): for every T > 0 get_a(T) returns a value >= 0, which is 0
\* exactly for an SRK or PR object at the temperature where
\* 1 + kappa*(1 - sqrt(T/T_crit)) = 0; for RK it is strictly positive.
C1_ANonNegative ==
    (pc = "ready" /\ last.method = "get_a" /\ RPos(last.T)) =>
        /\ last.kind = "value"
        /\ ~RNegative(last.val)
        /\ RIsZero(last.val) <=>
              (self.family \in {"SRK", "PR"} /\ RIsZero(LastAlpha0))

C1_Witness ==
    /\ Returns("get_a") /\ RPos(last.T) /\ self.family = "SRK"
    /\ RPos(self.kappa) /\ RIsZero(last.val)

\* C5: a call, returning or failing, changes no attribute of the object and
\* leaves it usable.
C5_CallsLeaveObjectUnchanged ==
    [][pc = "ready" => (self' = self /\ pc' = "ready")]_vars

C5_Witness ==
    /\ pc = "ready" /\ failed
    /\ last.kind = "value" /\ RPos(last.T)

(* Long integers for the comparisons of C6, whose cross-multiplied terms    *)
(* exceed the range of the model checker's integers: a sign and the        *)
(* magnitude as its digits to the base 10000, least significant first.     *)
RECURSIVE Limbs(_)
Limbs(n) == IF n = 0 THEN <<>> ELSE <<n % 10000>> \o Limbs(n \div 10000)

RECURSIVE Trim(_)
Trim(a) ==
    IF a = <<>> THEN a
    ELSE IF a[Len(a)] = 0 THEN Trim(SubSeq(a, 1, Len(a) - 1)) ELSE a

Rest(a) == IF a = <<>> THEN a ELSE Tail(a)
Low(a) == IF a = <<>> THEN 0 ELSE Head(a)

RECURSIVE MagAdd(_, _, _)
MagAdd(a, b, c) ==
    IF a = <<>> /\ b = <<>> THEN (IF c = 0 THEN <<>> ELSE <<c>>)
    ELSE LET t == Low(a) + Low(b) + c
         IN  <<t % 10000>> \o MagAdd(Rest(a), Rest(b), t \div 10000)

\* a - b - c for a >= b + c
RECURSIVE MagSub(_, _, _)
MagSub(a, b, c) ==
    IF a = <<>> THEN <<>>
    ELSE LET t == Head(a) - Low(b) - c
         IN  IF t < 0 THEN <<t + 10000>> \o MagSub(Tail(a), Rest(b), 1)
             ELSE <<t>> \o MagSub(Tail(a), Rest(b), 0)

RECURSIVE MagLess(_, _)
MagLess(a, b) ==
    IF Len(a) # Len(b) THEN Len(a) < Len(b)
    ELSE IF a = <<>> THEN FALSE
    ELSE LET n == Len(a)
         IN  IF a[n] # b[n] THEN a[n] < b[n]
             ELSE MagLess(SubSeq(a, 1, n - 1), SubSeq(b, 1, n - 1))

\* a * d + c for a digit d
RECURSIVE MagScale(_, _, _)
MagScale(a, d, c) ==
    IF a = <<>> THEN (IF c = 0 THEN <<>> ELSE <<c>>)
    ELSE LET t == Head(a) * d + c
         IN  <<t % 10000>> \o MagScale(Tail(a), d, t \div 10000)

RECURSIVE MagMul(_, _)
MagMul(a, b) ==
    IF a = <<>> \/ b = <<>> THEN <<>>
    ELSE LET rest == MagMul(a, Tail(b))
         IN  MagAdd(Trim(MagScale(a, Head(b), 0)),
                    IF rest = <<>> THEN rest ELSE <<0>> \o rest, 0)

ZOf(n) == [neg |-> n < 0, mag |-> Limbs(Abs(n))]
ZNeg(x) == [neg |-> ~x.neg /\ x.mag # <<>>, mag |-> x.mag]
ZAbs(x) == [neg |-> FALSE, mag |-> x.mag]
ZAdd(x, y) ==
    IF x.neg = y.neg THEN [neg |-> x.neg, mag |-> MagAdd(x.mag, y.mag, 0)]
    ELSE IF MagLess(x.mag, y.mag)
         THEN [neg |-> y.neg, mag |-> Trim(MagSub(y.mag, x.mag, 0))]
    ELSE LET m == Trim(MagSub(x.mag, y.mag, 0))
         IN  [neg |-> x.neg /\ m # <<>>, mag |-> m]
ZMul(x, y) ==
    LET m == MagMul(x.mag, y.mag)
    IN  [neg |-> (x.neg # y.neg) /\ m # <<>>, mag |-> m]
ZLe(x, y) == ~ZAdd(y, ZNeg(x)).neg

\* long rationals <<numerator, denominator>>, the denominator positive
QOf(r) == <<ZOf(r[1]), ZOf(r[2])>>
QSub(x, y) == <<ZAdd(ZMul(x[1], y[2]), ZNeg(ZMul(y[1], x[2]))), ZMul(x[2], y[2])>>
QMul(x, y) == <<ZMul(x[1], y[1]), ZMul(x[2], y[2])>>
QAbs(x) == <<ZAbs(x[1]), x[2]>>
QLe(x, y) == ZLe(ZMul(x[1], y[2]), ZMul(y[1], x[2]))

\* the function the last method called is the derivative of
Primitive(T) ==
    IF last.method = "get_diff_a_T" THEN Call_get_a(self, T).val
    ELSE Call_get_diff_a_T(self, T).val

Shifted(h) == RMul(self.T_crit, RSq(RAdd(LastSqrtTr, h)))

\* the steps h: 1/SqrtDen halved up to MaxHalvings times
RECURSIVE Pow2(_)
Pow2(i) == IF i = 0 THEN 1 ELSE 2 * Pow2(i - 1)
Steps == {Frac(1, SqrtDen * Pow2(i)) : i \in 0..MaxHalvings}

\* |d*(T2 - T1) - (f(T2) - f(T1))| <= 8*(h/s)^2 * |d| * (T2 - T1)
WithinTolerance(d, h) ==
    LET dF == QSub(QOf(Primitive(Shifted(h))), QOf(Primitive(Shifted(RNeg(h)))))
        dT == QOf(RSub(Shifted(h), Shifted(RNeg(h))))
        tol == QOf(RMul(I(8), RSq(RDiv(h, LastSqrtTr))))
    IN  QLe(QAbs(QSub(QMul(QOf(d), dT), dF)),
            QMul(tol, QMul(QAbs(QOf(d)), dT)))

\* C6: for every family and every T > 0, sub- and super-critical,
\* get_diff_a_T(T) agrees with the difference quotient of get_a around T,
\* and get_double_diff_a_T(T) with that of get_diff_a_T, within a tolerance
\* that vanishes with the step: for a step h in s = sqrt(T/T_crit), with
\* T1 = T_crit*(s-h)^2 and T2 = T_crit*(s+h)^2,
\*     |d(T) - (f(T2) - f(T1))/(T2 - T1)| <= 8*(h/s)^2 * |d(T)|.
\* The steps go down to h = 1/(SqrtDen * 2^MaxHalvings).
C6_DerivativesMatchDifferences ==
    (/\ pc = "ready"
     /\ last.method \in {"get_diff_a_T", "get_double_diff_a_T"}
     /\ last.kind = "value" /\ RPos(last.T)) =>
        \A h \in Steps :
            RPos(RSub(LastSqrtTr, h)) => WithinTolerance(last.val, h)

C6_Witness ==
    /\ Returns("get_double_diff_a_T") /\ self.family = "PR"
    /\ RLt(self.T_crit, last.T) /\ ~RIsZero(self.kappa)

\* the object of the other of the two families with the same attributes
Other(o) == [o EXCEPT !.family = IF o.family = "SRK" THEN "PR" ELSE "SRK"]

\* C7: an SRK and a PR object with equal a0, kappa and T_crit return equal
\* results from each of the three methods at every T.
C7_SRKAndPRSameForm ==
    (pc = "ready" /\ last # NoCall /\ self.family \in {"SRK", "PR"}) =>
        LET r == CASE last.method = "get_a" -> Call_get_a(Other(self), last.T)
                   [] last.method = "get_diff_a_T" ->
                        Call_get_diff_a_T(Other(self), last.T)
                   [] last.method = "get_double_diff_a_T" ->
                        Call_get_double_diff_a_T(Other(self), last.T)
        IN  r.val = last.val /\ last.kind \in Outcomes(r)

C7_Witness ==
    /\ Returns("get_double_diff_a_T") /\ self.family = "SRK"
    /\ RPos(last.T) /\ last.T # self.T_crit /\ ~RIsZero(self.kappa)

\* C9: for T > 0, get_double_diff_a_T(T) of an SRK or PR object equals
\* 0.5*a0*kappa*(1 + kappa)*sqrt(T/T_crit)/T^2; it is strictly positive for
\* RK and for SRK and PR with kappa > 0.
C9_SecondDerivativePositive ==
    (Returns("get_double_diff_a_T") /\ RPos(last.T)) =>
        /\ self.family \in {"SRK", "PR"} =>
              RMul(RMul(I(2), last.val), RSq(last.T)) =
                 RMul(RMul(RMul(self.a0, self.kappa), RAdd(One, self.kappa)),
                      LastSqrtTr)
        /\ (self.family = "RK" \/ RPos(self.kappa)) => RPos(last.val)

C9_Witness ==
    /\ Returns("get_double_diff_a_T") /\ RPos(last.T)
    /\ self.family = "SRK" /\ RPos(self.kappa) /\ RNegative(LastAlpha0)

\* C10: get_a(T_crit) = a0 for every family, whatever kappa is.
C10_AAtCriticalTemperature ==
    (pc = "ready" /\ last.method = "get_a" /\ last.T = self.T_crit) =>
        (last.kind = "value" /\ last.val = self.a0)

C10_Witness ==
    /\ Returns("get_a") /\ last.T = self.T_crit /\ self.family = "PR"
    /\ ~RIsZero(self.kappa) /\ self.a0 # One

====
